---------------------------- MODULE Spec2Model ----------------------------
(***************************************************************************)
(* Model of the SpiritMirror scoring engine (lib/quiz-logic):              *)
(* SpiritAnimalCalculator.validateResponses, calculateResult,              *)
(* getResultWithSecondary, calculateConfidence and calculateQuizResult.    *)
(*                                                                         *)
(* Encoding of the JavaScript values:                                      *)
(*  - a points object is the sequence of its own entries in insertion      *)
(*    order (the order Object.entries yields), each an [animal, points]    *)
(*    record; a response whose points field is absent has hasPoints =      *)
(*    FALSE;                                                               *)
(*  - the fractions the code handles (confidenceModifier, the thresholds   *)
(*    of the configuration) are multiples of 1/10 and are held as their     *)
(*    numerator over 10 ("tenths"); products with them are computed as      *)
(*    IEEE-754 binary64 computes them (see JsMulRoundsBelowHalf).          *)
(***************************************************************************)
EXTENDS Integers, Naturals, Sequences, FiniteSets, TLC

\* one call of calculateQuizResult
VARIABLES pc, responses, config, idx, animalScores, scores, result, error

\* calculator instances and the configuration objects they refer to
VARIABLES heap, calculators, given, returned

\* the quiz page (QuizPage), the browser's session storage and location
VARIABLES route, isLoading, pageError, isCompleted, pageResult,
          sessionStorage, navigationTimer

\* QuizFlow and its QuestionCard: the state of the component, the timers it
\* has set and the calls of onComplete it has made
VARIABLES currentQuestionIndex, flowResponses, highestAnsweredQuestion,
          isTransitioning, showCompletion, selectedOption, mounted, timers,
          completed

callVars == <<pc, responses, config, idx, animalScores, scores, result, error>>

instanceVars == <<heap, calculators, given, returned>>

pageVars == <<route, isLoading, pageError, isCompleted, pageResult,
              sessionStorage, navigationTimer>>

flowVars == <<currentQuestionIndex, flowResponses, highestAnsweredQuestion,
              isTransitioning, showCompletion, selectedOption, mounted, timers,
              completed>>

vars == <<callVars, instanceVars, pageVars, flowVars>>

(***************************************************************************)
(* Bounds of the explored inputs.                                          *)
(***************************************************************************)
MaxFill == 7
MaxTail == 2
MaxAnswered == 15
MaxSkipped == 15

(***************************************************************************)
(* Program constants.                                                      *)
(***************************************************************************)
FullConfidenceQuestions == 10
AssumedTotalQuestions == 15
HighScoreDifference == 20
MediumScoreDifference == 10

validOptions == {"A", "B", "C", "D", "E", "F", "unknown", "skip"}

CONFIDENCE_LEVELS == [HIGH |-> "high", MEDIUM |-> "medium", LOW |-> "low"]

DEFAULT_CONFIG ==
  [secondaryAnimalThreshold |-> 7,
   confidenceThresholds |-> [high |-> 10, medium |-> 6]]

(***************************************************************************)
(* Values.                                                                 *)
(***************************************************************************)
Pt(a, p) == [animal |-> a, points |-> p]

\* timestamp is Date.now() at the click; 0 until the list is assembled
QuestionResponse(q, o, h, p) ==
  [questionId |-> q, selectedOption |-> o, hasPoints |-> h, points |-> p,
   timestamp |-> 0]

NoScore == [animalName |-> "", totalPoints |-> 0, confidence |-> 0]

NoResult ==
  [primary |-> NoScore, hasSecondary |-> FALSE, secondary |-> NoScore,
   confidence |-> "", totalQuestionsAnswered |-> 0, skippedQuestions |-> 0]

Min(a, b) == IF a <= b THEN a ELSE b

RECURSIVE Pow2(_)
Pow2(n) == IF n = 0 THEN 1 ELSE 2 * Pow2(n - 1)

(***************************************************************************)
(* The inputs explored: a run of MaxFill or fewer copies of one response   *)
(* from FillPool followed by MaxTail or fewer responses from ResponsePool  *)
(* (well-formed and malformed).                                            *)
(***************************************************************************)
WellFormedPool ==
  { QuestionResponse("q1", "A", TRUE, <<Pt("wolf", 10)>>),
    QuestionResponse("q2", "B", TRUE, <<Pt("fox", 3), Pt("wolf", 4)>>),
    QuestionResponse("q3", "C", TRUE, <<Pt("wolf", 5)>>),
    QuestionResponse("q4", "D", TRUE, <<Pt("owl", 0)>>),
    QuestionResponse("q5", "F", TRUE, << >>),
    QuestionResponse("q6", "skip", TRUE, << >>),
    QuestionResponse("q7", "skip", TRUE, <<Pt("owl", 10)>>),
    QuestionResponse("q8", "unknown", TRUE, <<Pt("fox", 3)>>),
    QuestionResponse("q9", "E", TRUE, <<Pt("fox", 2)>>) }

MalformedPool ==
  { QuestionResponse("", "A", TRUE, <<Pt("wolf", 10)>>),
    QuestionResponse("q1", "", TRUE, <<Pt("wolf", 10)>>),
    QuestionResponse("q1", "Z", TRUE, <<Pt("wolf", 10)>>),
    QuestionResponse("q1", "A", FALSE, << >>),
    QuestionResponse("q1", "A", TRUE, <<Pt("wolf", 10), Pt("fox", -1)>>),
    QuestionResponse("q1", "skip", TRUE, <<Pt("fox", -1)>>) }

ResponsePool == WellFormedPool \cup MalformedPool

FillPool ==
  { QuestionResponse("q2", "B", TRUE, <<Pt("fox", 3), Pt("wolf", 4)>>),
    QuestionResponse("q3", "C", TRUE, <<Pt("wolf", 5)>>) }

ConfigPool ==
  { DEFAULT_CONFIG,
    [secondaryAnimalThreshold |-> 10,
     confidenceThresholds |-> [high |-> 8, medium |-> 5]] }

Tails == UNION { [1..n -> ResponsePool] : n \in 0..MaxTail }

\* the responses are created one after the other: timestamps follow the order
Stamped(rs) == [i \in 1..Len(rs) |-> [rs[i] EXCEPT !.timestamp = i]]

FillTailInputs ==
  { Stamped([i \in 1..(k + Len(t)) |-> IF i <= k THEN f ELSE t[i - k]]) :
      k \in 0..MaxFill, f \in FillPool, t \in Tails }

(***************************************************************************)
(* The lists QuizFlow hands over: one response per question, each either   *)
(* an answer (handleAnswerSelect) or a skip (handleQuestionSkip); here the *)
(* first a questions are answered with one option and s more are skipped.  *)
(***************************************************************************)
QuestionId(i) == "q" \o ToString(i)

AnswerPool ==
  { [selectedOption |-> "A", points |-> <<Pt("wolf", 10)>>],
    [selectedOption |-> "B", points |-> <<Pt("fox", 3), Pt("wolf", 4)>>] }

QuizInputs ==
  { Stamped([i \in 1..(a + k) |->
       IF i <= a
         THEN QuestionResponse(QuestionId(i), o.selectedOption, TRUE, o.points)
         ELSE QuestionResponse(QuestionId(i), "skip", TRUE, << >>)]) :
      a \in 0..MaxAnswered, k \in 0..MaxSkipped, o \in AnswerPool }

Inputs == FillTailInputs \cup QuizInputs

(***************************************************************************)
(* validateResponses: the check of one entry, in the order of the code.    *)
(* The typeof tests are not modelled: the inputs are well typed.           *)
(***************************************************************************)
HasBadPoints(r) == \E i \in 1..Len(r.points) : r.points[i].points < 0

\* mutant: the point values of a skipped response are not looked at
EntryErrorAnsweredOnly(r) ==
  IF r.questionId = "" THEN "questionId"
  ELSE IF r.selectedOption = "" THEN "selectedOption"
  ELSE IF r.selectedOption \notin validOptions THEN "validOption"
  ELSE IF ~r.hasPoints THEN "points"
  ELSE IF r.selectedOption \notin {"skip", "unknown"} /\ HasBadPoints(r) THEN "pointValue"
  ELSE "ok"

EntryError(r) ==
  IF r.questionId = "" THEN "questionId"
  ELSE IF r.selectedOption = "" THEN "selectedOption"
  ELSE IF r.selectedOption \notin validOptions THEN "validOption"
  ELSE IF ~r.hasPoints THEN "points"
  ELSE IF HasBadPoints(r) THEN "pointValue"
  ELSE "ok"

(***************************************************************************)
(* calculateResult, lines 129-148: the accumulation of one response into   *)
(* animalScores, an object held as its entries in insertion order.          *)
(***************************************************************************)
IsAnswered(r) == r.selectedOption # "unknown" /\ r.selectedOption # "skip"

HasKey(acc, animal) == \E i \in 1..Len(acc) : acc[i].animal = animal

KeyIndex(acc, animal) == CHOOSE i \in 1..Len(acc) : acc[i].animal = animal

\* mutant: an archetype awarded zero points gets no entry
AddPointsNonZero(acc, animal, points) ==
  IF points = 0 THEN acc
  ELSE IF HasKey(acc, animal)
    THEN [acc EXCEPT ![KeyIndex(acc, animal)].score = @ + points]
    ELSE Append(acc, [animal |-> animal, score |-> points])

\* mutant: the points are assigned instead of added
AddPointsOverwrite(acc, animal, points) ==
  IF HasKey(acc, animal)
    THEN [acc EXCEPT ![KeyIndex(acc, animal)].score = points]
    ELSE Append(acc, [animal |-> animal, score |-> points])

\* if (!animalScores[animal]) animalScores[animal] = 0; animalScores[animal] += points
AddPoints(acc, animal, points) ==
  IF HasKey(acc, animal)
    THEN LET i == KeyIndex(acc, animal)
             cur == IF acc[i].score = 0 THEN 0 ELSE acc[i].score
         IN  [acc EXCEPT ![i].score = cur + points]
    ELSE Append(acc, [animal |-> animal, score |-> 0 + points])

RECURSIVE AddEntries(_, _, _)
AddEntries(acc, entries, i) ==
  IF i > Len(entries) THEN acc
  ELSE AddEntries(AddPoints(acc, entries[i].animal, entries[i].points), entries, i + 1)

\* mutant: the skip/unknown test is missing
AccumulateResponseAll(acc, r) == AddEntries(acc, r.points, 1)

\* mutant: a response without a (truthy) timestamp is passed over
AccumulateResponseTimed(acc, r) ==
  IF IsAnswered(r) /\ r.timestamp # 0 THEN AddEntries(acc, r.points, 1) ELSE acc

AccumulateResponse(acc, r) ==
  IF IsAnswered(r) THEN AddEntries(acc, r.points, 1) ELSE acc

(***************************************************************************)
(* Math.round(score * confidenceModifier) in IEEE-754 binary64, for an     *)
(* integer score >= 0 and confidenceModifier = fl(n/10), n in 0..10.       *)
(*                                                                         *)
(* fl(n/10) = M * 2^(-52-j) with 2^(-j) <= n/10 < 2^(1-j); its error is    *)
(* r/(10 * 2^(52+j)) with r = 10*M - n*2^(52+j), an integer in -4..4 that  *)
(* TenthError derives from the residue of n*2^(52+j) modulo 10.  The exact *)
(* product is H + score*r/(10*2^(52+j)) with H = score*n/10.  Math.round   *)
(* differs from rounding H half-up only when H is a half-integer and the   *)
(* rounded product falls below H, which is when r < 0 and the error        *)
(* exceeds half the gap between H and the binary64 number below it (a tie  *)
(* goes to H, whose significand is even).                                  *)
(***************************************************************************)
\* j with 2^(-j) <= n/10 < 2^(1-j), for n in 1..9
TenthExponent(n) ==
  IF n >= 5 THEN 1 ELSE IF n >= 3 THEN 2 ELSE IF n = 2 THEN 3 ELSE 4

\* 2^e modulo 10, for e >= 1
Pow2Mod10(e) == <<6, 2, 4, 8>>[(e % 4) + 1]

\* r = 10*M - n*2^(52+j), where M is n*2^(52+j)/10 rounded to nearest
TenthError(n) ==
  LET rho == (n * Pow2Mod10(52 + TenthExponent(n))) % 10
  IN  IF rho = 0 THEN 0 ELSE IF rho < 5 THEN 0 - rho ELSE 10 - rho

\* the largest k with 5 * 2^k <= x, for x >= 5
RECURSIVE HalfExponent(_, _)
HalfExponent(x, k) == IF 5 * Pow2(k + 1) <= x THEN HalfExponent(x, k + 1) ELSE k

JsMulRoundsBelowHalf(score, n) ==
  /\ n \in 1..9
  /\ (score * n) % 10 = 5
  /\ TenthError(n) < 0
  /\ LET k == HalfExponent(score * n, 0)
         j == TenthExponent(n)
         gap == IF score * n = 5 * Pow2(k) THEN Pow2(k + j - 1) ELSE Pow2(k + j)
     IN  4 * score * (0 - TenthError(n)) > 10 * gap

\* Math.round(x) is floor(x + 0.5)
JsRoundTimesTenths(score, n) ==
  IF JsMulRoundsBelowHalf(score, n)
    THEN (score * n - 5) \div 10
    ELSE (score * n + 5) \div 10

(***************************************************************************)
(* calculateResult, lines 150-166: the confidence modifier, the scores and *)
(* their sort.  confidenceModifier = Math.min(answered / 10, 1) is held as *)
(* its numerator over FullConfidenceQuestions.  categoryBreakdown is never *)
(* filled by the code and is left out.                                     *)
(***************************************************************************)
AnsweredQuestions(rs) == Cardinality({i \in 1..Len(rs) : IsAnswered(rs[i])})

\* mutant: the modifier is not capped at 1
ConfidenceModifierUncapped(rs) == AnsweredQuestions(rs)

ConfidenceModifier(rs) == Min(AnsweredQuestions(rs), FullConfidenceQuestions)

SpiritAnimalScore(entry, modifier) ==
  [animalName |-> entry.animal,
   totalPoints |-> JsRoundTimesTenths(entry.score, modifier),
   confidence |-> modifier]

\* mutant: archetypes whose damped total is zero are dropped
RECURSIVE MapScoresNonZero(_, _)
MapScoresNonZero(acc, modifier) ==
  IF Len(acc) = 0 THEN << >>
  ELSE IF JsRoundTimesTenths(acc[1].score, modifier) = 0
    THEN MapScoresNonZero(Tail(acc), modifier)
  ELSE <<SpiritAnimalScore(acc[1], modifier)>> \o MapScoresNonZero(Tail(acc), modifier)

MapScores(acc, modifier) ==
  [i \in 1..Len(acc) |-> SpiritAnimalScore(acc[i], modifier)]

\* mutant: the comparator sorts ascending
CompareAscending(a, b) == a.totalPoints - b.totalPoints

\* the comparator (a, b) => b.totalPoints - a.totalPoints
Compare(a, b) == b.totalPoints - a.totalPoints

\* mutant: the sort is not stable, x goes before the elements it ties with
InsertSortedBeforeTies(sorted, x) ==
  LET before == {i \in 1..Len(sorted) : Compare(sorted[i], x) < 0}
      n == Cardinality({i \in 1..Len(sorted) :
                          \A k \in 1..i : k \in before})
  IN  SubSeq(sorted, 1, n) \o <<x>> \o SubSeq(sorted, n + 1, Len(sorted))

\* Array.prototype.sort is stable: x goes behind every element it does not precede
InsertSorted(sorted, x) ==
  LET before == {i \in 1..Len(sorted) : Compare(sorted[i], x) <= 0}
      n == Cardinality({i \in 1..Len(sorted) :
                          \A k \in 1..i : k \in before})
  IN  SubSeq(sorted, 1, n) \o <<x>> \o SubSeq(sorted, n + 1, Len(sorted))

RECURSIVE SortScores(_, _, _)
SortScores(sorted, list, i) ==
  IF i > Len(list) THEN sorted
  ELSE SortScores(InsertSorted(sorted, list[i]), list, i + 1)

DampedAndSorted(acc, rs) ==
  SortScores(<< >>, MapScores(acc, ConfidenceModifier(rs)), 1)

(***************************************************************************)
(* calculateConfidence and getResultWithSecondary.  An absent secondary is *)
(* hasSecondary = FALSE.  The thresholds of the configuration are tenths;  *)
(* for integer totals below 200, s >= p * fl(t/10) in binary64 decides as  *)
(* 10*s >= p*t does.                                                       *)
(***************************************************************************)
\* mutant: the score-difference boundaries are exclusive
calculateConfidenceStrict(primary, hasSecond, secondary, cfg) ==
  LET scoreDifference == IF hasSecond
                           THEN primary.totalPoints - secondary.totalPoints
                           ELSE primary.totalPoints
  IN  IF primary.confidence >= cfg.confidenceThresholds.high
           /\ scoreDifference > HighScoreDifference
        THEN CONFIDENCE_LEVELS.HIGH
      ELSE IF primary.confidence >= cfg.confidenceThresholds.medium
           /\ scoreDifference > MediumScoreDifference
        THEN CONFIDENCE_LEVELS.MEDIUM
      ELSE CONFIDENCE_LEVELS.LOW

\* mutant: the label looks at the score difference only
calculateConfidenceGapOnly(primary, hasSecond, secondary, cfg) ==
  LET scoreDifference == IF hasSecond
                           THEN primary.totalPoints - secondary.totalPoints
                           ELSE primary.totalPoints
  IN  IF scoreDifference >= HighScoreDifference THEN CONFIDENCE_LEVELS.HIGH
      ELSE IF scoreDifference >= MediumScoreDifference THEN CONFIDENCE_LEVELS.MEDIUM
      ELSE CONFIDENCE_LEVELS.LOW

calculateConfidence(primary, hasSecond, secondary, cfg) ==
  LET hasHighConfidenceAnswers == primary.confidence >= cfg.confidenceThresholds.high
      hasMediumConfidenceAnswers == primary.confidence >= cfg.confidenceThresholds.medium
      scoreDifference == IF hasSecond
                           THEN primary.totalPoints - secondary.totalPoints
                           ELSE primary.totalPoints
  IN  IF hasHighConfidenceAnswers /\ scoreDifference >= HighScoreDifference
        THEN CONFIDENCE_LEVELS.HIGH
      ELSE IF hasMediumConfidenceAnswers /\ scoreDifference >= MediumScoreDifference
        THEN CONFIDENCE_LEVELS.MEDIUM
      ELSE CONFIDENCE_LEVELS.LOW

\* mutant: the threshold test is strict
shouldShowSecondaryStrict(primary, hasSecond, secondary, cfg) ==
  /\ hasSecond
  /\ 10 * secondary.totalPoints > primary.totalPoints * cfg.secondaryAnimalThreshold

shouldShowSecondary(primary, hasSecond, secondary, cfg) ==
  /\ hasSecond
  /\ 10 * secondary.totalPoints >= primary.totalPoints * cfg.secondaryAnimalThreshold

\* mutant: the label is computed from the secondary that is shown
getResultWithSecondaryLabelFromShown(ss, cfg) ==
  LET primary == ss[1]
      hasSecond == Len(ss) >= 2
      secondary == IF hasSecond THEN ss[2] ELSE NoScore
      show == shouldShowSecondary(primary, hasSecond, secondary, cfg)
      answered == JsRoundTimesTenths(AssumedTotalQuestions, primary.confidence)
  IN  [primary |-> primary,
       hasSecondary |-> show,
       secondary |-> IF show THEN secondary ELSE NoScore,
       confidence |-> calculateConfidence(primary, show, secondary, cfg),
       totalQuestionsAnswered |-> answered,
       skippedQuestions |-> AssumedTotalQuestions - answered]

\* mutant: the counts are derived from the rounded primary total
getResultWithSecondaryCountsFromPoints(ss, cfg) ==
  LET primary == ss[1]
      hasSecond == Len(ss) >= 2
      secondary == IF hasSecond THEN ss[2] ELSE NoScore
      show == shouldShowSecondary(primary, hasSecond, secondary, cfg)
      answered == JsRoundTimesTenths(primary.totalPoints, primary.confidence)
  IN  [primary |-> primary,
       hasSecondary |-> show,
       secondary |-> IF show THEN secondary ELSE NoScore,
       confidence |-> calculateConfidence(primary, hasSecond, secondary, cfg),
       totalQuestionsAnswered |-> answered,
       skippedQuestions |-> AssumedTotalQuestions - answered]

getResultWithSecondary(ss, cfg) ==
  LET primary == ss[1]
      hasSecond == Len(ss) >= 2
      secondary == IF hasSecond THEN ss[2] ELSE NoScore
      show == shouldShowSecondary(primary, hasSecond, secondary, cfg)
      answered == JsRoundTimesTenths(AssumedTotalQuestions, primary.confidence)
  IN  [primary |-> primary,
       hasSecondary |-> show,
       secondary |-> IF show THEN secondary ELSE NoScore,
       confidence |-> calculateConfidence(primary, hasSecond, secondary, cfg),
       totalQuestionsAnswered |-> answered,
       skippedQuestions |-> AssumedTotalQuestions - answered]

(***************************************************************************)
(* The state machine: one call of calculateQuizResult(responses, config),  *)
(* stepped through validateResponses, the accumulation loop, the damping   *)
(* and sort, and getResultWithSecondary.                                   *)
(***************************************************************************)
CallInit ==
  /\ pc = "idle"
  /\ responses = << >>
  /\ config = DEFAULT_CONFIG
  /\ idx = 0
  /\ animalScores = << >>
  /\ scores = << >>
  /\ result = NoResult
  /\ error = "none"

\* calculateQuizResult: new SpiritAnimalCalculator(config), then calculateResult
Call ==
  /\ pc = "idle"
  /\ \E rs \in Inputs, cfg \in ConfigPool :
       /\ responses' = rs
       /\ config' = cfg
  /\ pc' = "validate"
  /\ idx' = 0
  /\ animalScores' = << >>
  /\ scores' = << >>
  /\ result' = NoResult
  /\ error' = "none"
  /\ UNCHANGED <<instanceVars, pageVars, flowVars>>

\* validateResponses, lines 264-270
ValidateLength ==
  /\ pc = "validate"
  /\ IF Len(responses) = 0
       THEN /\ pc' = "failed"
            /\ error' = "validation"
            /\ idx' = idx
       ELSE /\ pc' = "validateEntry"
            /\ error' = error
            /\ idx' = 1
  /\ UNCHANGED <<responses, config, animalScores, scores, result>>
  /\ UNCHANGED <<instanceVars, pageVars, flowVars>>

\* mutant: the loop stops one entry short
ValidateEntrySkipsLast ==
  /\ pc = "validateEntry"
  /\ IF idx < Len(responses) /\ EntryError(responses[idx]) # "ok"
       THEN /\ pc' = "failed"
            /\ error' = "validation"
            /\ idx' = idx
       ELSE /\ pc' = IF idx >= Len(responses) - 1 THEN "aggregate" ELSE "validateEntry"
            /\ error' = error
            /\ idx' = IF idx >= Len(responses) - 1 THEN 1 ELSE idx + 1
  /\ UNCHANGED <<responses, config, animalScores, scores, result>>
  /\ UNCHANGED <<instanceVars, pageVars, flowVars>>

\* validateResponses, lines 274-298: one round of the forEach
ValidateEntry ==
  /\ pc = "validateEntry"
  /\ IF EntryError(responses[idx]) # "ok"
       THEN /\ pc' = "failed"
            /\ error' = "validation"
            /\ idx' = idx
       ELSE /\ pc' = IF idx = Len(responses) THEN "aggregate" ELSE "validateEntry"
            /\ error' = error
            /\ idx' = IF idx = Len(responses) THEN 1 ELSE idx + 1
  /\ UNCHANGED <<responses, config, animalScores, scores, result>>
  /\ UNCHANGED <<instanceVars, pageVars, flowVars>>

\* calculateResult, lines 129-148: one round of the forEach
Aggregate ==
  /\ pc = "aggregate"
  /\ animalScores' = AccumulateResponse(animalScores, responses[idx])
  /\ pc' = IF idx = Len(responses) THEN "damp" ELSE "aggregate"
  /\ idx' = idx + 1
  /\ UNCHANGED <<responses, config, scores, result, error>>
  /\ UNCHANGED <<instanceVars, pageVars, flowVars>>

\* mutant: the responses are sorted in place by their points before the scores are built
DampAndSortInPlace ==
  /\ pc = "damp"
  /\ scores' = DampedAndSorted(animalScores, responses)
  /\ responses' = [i \in 1..Len(responses) |-> responses[Len(responses) + 1 - i]]
  /\ pc' = "scored"
  /\ UNCHANGED <<config, idx, animalScores, result, error>>
  /\ UNCHANGED <<instanceVars, pageVars, flowVars>>

\* calculateResult, lines 150-168
DampAndSort ==
  /\ pc = "damp"
  /\ scores' = DampedAndSorted(animalScores, responses)
  /\ pc' = "scored"
  /\ UNCHANGED <<responses, config, idx, animalScores, result, error>>
  /\ UNCHANGED <<instanceVars, pageVars, flowVars>>

\* getResultWithSecondary, lines 185-207
GetResult ==
  /\ pc = "scored"
  /\ IF Len(scores) = 0
       THEN /\ pc' = "failed"
            /\ error' = "noScores"
            /\ result' = result
       ELSE /\ pc' = "done"
            /\ error' = error
            /\ result' = getResultWithSecondary(scores, config)
  /\ UNCHANGED <<responses, config, idx, animalScores, scores>>
  /\ UNCHANGED <<instanceVars, pageVars, flowVars>>

\* the call has returned or thrown; the next call starts from a fresh calculator
Return ==
  /\ pc \in {"done", "failed"}
  /\ pc' = "idle"
  /\ responses' = << >>
  /\ config' = DEFAULT_CONFIG
  /\ idx' = 0
  /\ animalScores' = << >>
  /\ scores' = << >>
  /\ result' = NoResult
  /\ error' = "none"
  /\ UNCHANGED <<instanceVars, pageVars, flowVars>>

(***************************************************************************)
(* Calculator instances.  A configuration is an object: instances hold a   *)
(* reference into heap, where DEFAULT_CONFIG is the object every instance  *)
(* built without an argument refers to.  No code writes into the nested    *)
(* confidenceThresholds object, so it is held by value in its parent.      *)
(***************************************************************************)
MaxObjects == 4

Instances == {"first", "second"}

DefaultConfigRef == 1

CallerConfigRef == 2

CallerConfig == CHOOSE c \in ConfigPool : c # DEFAULT_CONFIG

NoCalculator == [config |-> 0]

NoReturn == [by |-> "nobody", responses |-> << >>, config |-> DEFAULT_CONFIG,
             value |-> [error |-> "none", result |-> NoResult]]

InstanceInit ==
  /\ heap = <<DEFAULT_CONFIG, CallerConfig>>
  /\ calculators = [i \in Instances |-> NoCalculator]
  /\ given = [i \in Instances |-> DEFAULT_CONFIG]
  /\ returned = NoReturn

(***************************************************************************)
(* The quiz page: the state of a freshly mounted QuizPage, an empty        *)
(* session storage.                                                        *)
(***************************************************************************)
NoItems == [k \in {} |-> << >>]

PageInit ==
  /\ route = "/quiz"
  /\ isLoading = TRUE
  /\ pageError = "null"
  /\ isCompleted = FALSE
  /\ pageResult = NoResult
  /\ sessionStorage = NoItems
  /\ navigationTimer = FALSE

(***************************************************************************)
(* QuizFlow: the state of a freshly mounted component, lines 556-560, and  *)
(* of its QuestionCard; no timer is set, onComplete has not been called.   *)
(***************************************************************************)
FlowInit ==
  /\ currentQuestionIndex = 0
  /\ flowResponses = << >>
  /\ highestAnsweredQuestion = 0
  /\ isTransitioning = FALSE
  /\ showCompletion = FALSE
  /\ selectedOption = "null"
  /\ mounted = TRUE
  /\ timers = << >>
  /\ completed = << >>

Init == CallInit /\ InstanceInit /\ PageInit /\ FlowInit

Next ==
  \/ Call
  \/ ValidateLength
  \/ ValidateEntry
  \/ Aggregate
  \/ DampAndSort
  \/ GetResult
  \/ Return

Spec == Init /\ [][Next]_vars

TypeOK ==
  /\ pc \in {"idle", "validate", "validateEntry", "aggregate", "damp",
             "scored", "done", "failed"}
  /\ error \in {"none", "validation", "noScores"}
  /\ idx \in 0..(MaxFill + MaxTail + MaxAnswered + MaxSkipped + 1)

(***************************************************************************)
(* The same computation as functions of the arguments.                     *)
(***************************************************************************)
validateResponses(rs) ==
  IF Len(rs) = 0 THEN "validation"
  ELSE IF \E i \in 1..Len(rs) : EntryError(rs[i]) # "ok" THEN "validation"
  ELSE "ok"

\* the forEach of lines 129-148; the test on next only has it evaluated
\* before the next round
RECURSIVE Accumulate(_, _, _)
Accumulate(acc, rs, i) ==
  IF i > Len(rs) THEN acc
  ELSE LET next == AccumulateResponse(acc, rs[i])
       IN  IF Len(next) >= 0 THEN Accumulate(next, rs, i + 1) ELSE next

calculateResult(rs) == DampedAndSorted(Accumulate(<< >>, rs, 1), rs)

calculateQuizResult(rs, cfg) ==
  IF validateResponses(rs) # "ok"
    THEN [error |-> "validation", result |-> NoResult]
  ELSE IF Len(calculateResult(rs)) = 0
    THEN [error |-> "noScores", result |-> NoResult]
  ELSE [error |-> "none", result |-> getResultWithSecondary(calculateResult(rs), cfg)]

(***************************************************************************)
(* Calls on calculator instances.  JavaScript runs each call to its end    *)
(* before the next one starts, so calls on two instances interleave call   *)
(* by call.                                                                *)
(***************************************************************************)
\* the lists of a whole quiz of AssumedTotalQuestions questions
WholeQuizInputs == {rs \in QuizInputs : Len(rs) = AssumedTotalQuestions}

\* those of them whose result depends on the configuration
ConfigSensitiveInputs ==
  {rs \in WholeQuizInputs :
     calculateQuizResult(rs, DEFAULT_CONFIG) # calculateQuizResult(rs, CallerConfig)}

\* the newConfig arguments of updateConfig: Partial<ScoringConfig>
PartialConfigPool ==
  { [secondaryAnimalThreshold |-> 10],
    [confidenceThresholds |-> [high |-> 8, medium |-> 5]] }

\* { ...a, ...b }: a new object with b's properties over a's
Spread(a, b) ==
  [k \in DOMAIN a \cup DOMAIN b |-> IF k \in DOMAIN b THEN b[k] ELSE a[k]]

\* constructor, lines 101-103: this.config = config, the reference passed
\* or DEFAULT_CONFIG when none is passed
constructor(i, ref) ==
  /\ calculators[i] = NoCalculator
  /\ calculators' = [calculators EXCEPT ![i] = [config |-> ref]]
  /\ given' = [given EXCEPT ![i] = heap[ref]]
  /\ UNCHANGED <<heap, returned>>
  /\ UNCHANGED <<callVars, pageVars, flowVars>>

\* mutant: this.config = { ...DEFAULT_CONFIG, ...newConfig }, the fields that
\* newConfig leaves out fall back to the defaults
updateConfigOverDefaults(i, newConfig) ==
  /\ calculators[i] # NoCalculator
  /\ Len(heap) < MaxObjects
  /\ heap' = Append(heap, Spread(DEFAULT_CONFIG, newConfig))
  /\ calculators' = [calculators EXCEPT ![i] = [config |-> Len(heap) + 1]]
  /\ given' = [given EXCEPT ![i] = Spread(given[i], newConfig)]
  /\ UNCHANGED returned
  /\ UNCHANGED <<callVars, pageVars, flowVars>>

\* mutant: Object.assign(this.config, newConfig), the object is written in place
updateConfigInPlace(i, newConfig) ==
  /\ calculators[i] # NoCalculator
  /\ heap' = [heap EXCEPT ![calculators[i].config] =
                Spread(heap[calculators[i].config], newConfig)]
  /\ given' = [given EXCEPT ![i] = Spread(given[i], newConfig)]
  /\ UNCHANGED <<calculators, returned>>
  /\ UNCHANGED <<callVars, pageVars, flowVars>>

\* updateConfig, lines 315-317: this.config = { ...this.config, ...newConfig }
updateConfig(i, newConfig) ==
  /\ calculators[i] # NoCalculator
  /\ Len(heap) < MaxObjects
  /\ heap' = Append(heap, Spread(heap[calculators[i].config], newConfig))
  /\ calculators' = [calculators EXCEPT ![i] = [config |-> Len(heap) + 1]]
  /\ given' = [given EXCEPT ![i] = Spread(given[i], newConfig)]
  /\ UNCHANGED returned
  /\ UNCHANGED <<callVars, pageVars, flowVars>>

\* calculateResult then getResultWithSecondary on instance i, lines 120-207
calculateOnInstance(i, rs) ==
  /\ calculators[i] # NoCalculator
  /\ returned' = [by |-> i, responses |-> rs, config |-> given[i],
                  value |-> calculateQuizResult(rs, heap[calculators[i].config])]
  /\ UNCHANGED <<heap, calculators, given>>
  /\ UNCHANGED <<callVars, pageVars, flowVars>>

\* calculateQuizResult(responses), lines 334-341: a calculator of its own,
\* built without a config, used for this call and dropped
calculateQuizResultDefault(rs) ==
  /\ returned' = [by |-> "calculateQuizResult", responses |-> rs, config |-> DEFAULT_CONFIG,
                  value |-> calculateQuizResult(rs, heap[DefaultConfigRef])]
  /\ UNCHANGED <<heap, calculators, given>>
  /\ UNCHANGED <<callVars, pageVars, flowVars>>

InstanceNext ==
  \/ \E i \in Instances, ref \in {DefaultConfigRef, CallerConfigRef} :
       constructor(i, ref)
  \/ \E i \in Instances, newConfig \in PartialConfigPool :
       updateConfig(i, newConfig)
  \/ \E i \in Instances, rs \in ConfigSensitiveInputs : calculateOnInstance(i, rs)
  \/ \E rs \in ConfigSensitiveInputs : calculateQuizResultDefault(rs)

InstanceSpec == Init /\ [][InstanceNext]_vars

(***************************************************************************)
(* The quiz page (src/app/quiz/page.tsx) around handleQuizComplete, with   *)
(* the session storage that outlives the page and the ways back to /quiz.  *)
(* Each handler runs to its end before the next one starts.                *)
(***************************************************************************)
\* what onComplete is called with: the lists of a whole quiz, and the empty
\* list and the lists of one response, well-formed or not, as any caller may
\* pass
PageInputs ==
  WholeQuizInputs \cup {<< >>} \cup {Stamped(<<r>>) : r \in ResponsePool}

LoadFailedMessage == "Failed to load quiz questions. Please refresh the page."

CalculationFailedMessage ==
  "Failed to calculate your spirit animal result. Please try again."

\* JSON.stringify of a value, kept apart from the value it came from
JSONstringify(v) == [json |-> v]

setItem(storage, key, value) ==
  [k \in DOMAIN storage \cup {key} |-> IF k = key THEN value ELSE storage[k]]

removeItem(storage, key) == [k \in DOMAIN storage \ {key} |-> storage[k]]

\* the page renders QuizFlow: none of the loading, error and completion
\* views of lines 130-177 is shown
QuizFlowShown ==
  /\ route = "/quiz"
  /\ ~isLoading
  /\ pageError = "null"
  /\ ~(isCompleted /\ pageResult # NoResult)

\* useState initial values, lines 44-48, of a page that mounts
Mounted ==
  /\ route' = "/quiz"
  /\ isLoading' = TRUE
  /\ pageError' = "null"
  /\ isCompleted' = FALSE
  /\ pageResult' = NoResult
  /\ navigationTimer' = FALSE

\* useEffect, lines 56-66: the questions are loaded
LoadQuestions ==
  /\ route = "/quiz"
  /\ isLoading
  /\ isLoading' = FALSE
  /\ UNCHANGED <<route, pageError, isCompleted, pageResult, sessionStorage,
                 navigationTimer>>
  /\ UNCHANGED <<callVars, instanceVars, flowVars>>

\* useEffect, lines 67-71: loading has thrown
LoadQuestionsFailed ==
  /\ route = "/quiz"
  /\ isLoading
  /\ pageError' = LoadFailedMessage
  /\ isLoading' = FALSE
  /\ UNCHANGED <<route, isCompleted, pageResult, sessionStorage,
                 navigationTimer>>
  /\ UNCHANGED <<callVars, instanceVars, flowVars>>

\* mutant: the responses are stored before the result is calculated
handleQuizCompleteStoresFirst(rs) ==
  /\ QuizFlowShown
  /\ LET quizResult == calculateQuizResult(rs, DEFAULT_CONFIG)
         stored == setItem(sessionStorage, "quizResponses", JSONstringify(rs))
     IN  IF quizResult.error = "none"
           THEN /\ pageResult' = quizResult.result
                /\ isCompleted' = TRUE
                /\ sessionStorage' =
                     setItem(stored, "spiritAnimalResult",
                             JSONstringify(quizResult.result))
                /\ navigationTimer' = TRUE
                /\ pageError' = pageError
           ELSE /\ pageError' = CalculationFailedMessage
                /\ sessionStorage' = stored
                /\ UNCHANGED <<pageResult, isCompleted, navigationTimer>>
  /\ UNCHANGED <<route, isLoading>>
  /\ UNCHANGED <<callVars, instanceVars, flowVars>>

\* handleQuizComplete, lines 82-104
handleQuizComplete(rs) ==
  /\ QuizFlowShown
  /\ LET quizResult == calculateQuizResult(rs, DEFAULT_CONFIG)
     IN  IF quizResult.error = "none"
           THEN /\ pageResult' = quizResult.result
                /\ isCompleted' = TRUE
                /\ sessionStorage' =
                     setItem(setItem(sessionStorage, "spiritAnimalResult",
                                     JSONstringify(quizResult.result)),
                             "quizResponses", JSONstringify(rs))
                /\ navigationTimer' = TRUE
                /\ pageError' = pageError
           ELSE /\ pageError' = CalculationFailedMessage
                /\ UNCHANGED <<pageResult, isCompleted, sessionStorage,
                               navigationTimer>>
  /\ UNCHANGED <<route, isLoading>>
  /\ UNCHANGED <<callVars, instanceVars, flowVars>>

\* the callback of setTimeout, lines 96-98: router.push('/result')
NavigateToResult ==
  /\ route = "/quiz"
  /\ navigationTimer
  /\ route' = "/result"
  /\ navigationTimer' = FALSE
  /\ UNCHANGED <<isLoading, pageError, isCompleted, pageResult, sessionStorage>>
  /\ UNCHANGED <<callVars, instanceVars, flowVars>>

\* handleQuizSkip, lines 112-115: router.push('/')
handleQuizSkip ==
  /\ QuizFlowShown
  /\ route' = "/"
  /\ UNCHANGED <<isLoading, pageError, isCompleted, pageResult, sessionStorage,
                 navigationTimer>>
  /\ UNCHANGED <<callVars, instanceVars, flowVars>>

\* "Try Again" of the error view, line 159: window.location.reload()
Reload ==
  /\ route = "/quiz"
  /\ ~isLoading
  /\ pageError # "null"
  /\ Mounted
  /\ UNCHANGED sessionStorage
  /\ UNCHANGED <<callVars, instanceVars, flowVars>>

\* a link to /quiz from another page (Navbar.tsx line 73): the page mounts anew
OpenQuiz ==
  /\ route # "/quiz"
  /\ Mounted
  /\ UNCHANGED sessionStorage
  /\ UNCHANGED <<callVars, instanceVars, flowVars>>

\* handleRetakeQuiz of the result page (result/page.tsx lines 111-118)
handleRetakeQuiz ==
  /\ route = "/result"
  /\ sessionStorage' =
       removeItem(removeItem(sessionStorage, "spiritAnimalResult"),
                  "quizResponses")
  /\ Mounted
  /\ UNCHANGED <<callVars, instanceVars, flowVars>>

PageNext ==
  \/ LoadQuestions
  \/ LoadQuestionsFailed
  \/ \E rs \in PageInputs : handleQuizComplete(rs)
  \/ NavigateToResult
  \/ handleQuizSkip
  \/ Reload
  \/ OpenQuiz
  \/ handleRetakeQuiz

PageSpec == Init /\ [][PageNext]_vars

(***************************************************************************)
(* QuizFlow (part_005) and the QuestionCard it renders (part_006).         *)
(*                                                                         *)
(*  - A handler is a closure over the state of the render it was created   *)
(*    in.  A click calls the handler of the current render; the callback   *)
(*    QuestionCard sets with setTimeout calls the onAnswer it was given at   *)
(*    the click, that is handleAnswerSelect with the state of that render   *)
(*    (Closure), whatever the state has become since.                       *)
(*  - Time advances in steps of 100 ms (Tick).  A timer is due when its     *)
(*    remaining time is 0.  The timers due at a step run first, in the      *)
(*    order they were set, and then any number of clicks is taken at that   *)
(*    step, one after the other.  With delays of 200, 300 and 1500 ms the   *)
(*    order in which timers were set is the order of the clicks they come   *)
(*    from, so every behaviour of the model is one in real time: the        *)
(*    clicks of a step fall a moment after it, each later than the last.    *)
(*  - Once onComplete is called the page stops rendering QuizFlow, and a    *)
(*    render with currentQuestionIndex outside the questions throws         *)
(*    (currentQuestion.id, line 570): the component is no longer mounted,   *)
(*    state updates are dropped, timers already set still run.              *)
(***************************************************************************)
NumQuestions == 3

MaxTimers == 3

AnswerDelay == 2

TransitionDelay == 3

CompletionDelay == 15

\* the ids of the options of a question; every question offers AnswerPool
OptionIds == {o.selectedOption : o \in AnswerPool}

PointsOf(optionId) ==
  (CHOOSE o \in AnswerPool : o.selectedOption = optionId).points

\* questions[i].id, i from 0
IdOfQuestion(i) == QuestionId(i + 1)

InRange(i) == i \in 0..(NumQuestions - 1)

\* the state a handler created in the current render closes over
Closure ==
  [currentQuestionIndex |-> currentQuestionIndex,
   responses |-> flowResponses,
   highestAnsweredQuestion |-> highestAnsweredQuestion,
   isTransitioning |-> isTransitioning]

NoClosure ==
  [currentQuestionIndex |-> 0, responses |-> << >>,
   highestAnsweredQuestion |-> 0, isTransitioning |-> FALSE]

\* setTimeout(() => onAnswer(optionId), 200), part_006 lines 76-78
AnswerTimer(optionId, c) ==
  [callback |-> "onAnswer", delay |-> AnswerDelay, remaining |-> AnswerDelay,
   optionId |-> optionId, closure |-> c, step |-> 0, newResponses |-> << >>]

\* setTimeout(() => { setCurrentQuestionIndex(prev => prev + step); ... }, 300)
TransitionTimer(step) ==
  [callback |-> "transition", delay |-> TransitionDelay,
   remaining |-> TransitionDelay, optionId |-> "null", closure |-> NoClosure,
   step |-> step, newResponses |-> << >>]

\* setTimeout(() => onComplete(newResponses), 1500), part_005 lines 692-694
CompletionTimer(newResponses) ==
  [callback |-> "onComplete", delay |-> CompletionDelay,
   remaining |-> CompletionDelay, optionId |-> "null", closure |-> NoClosure,
   step |-> 0, newResponses |-> newResponses]

\* no timer has run out: the event loop is free to take a click or to wait
NoneDue == \A k \in 1..Len(timers) : timers[k].remaining > 0

\* timers[k] is the next timer to run: the one set first of those run out
Due(k) ==
  /\ timers[k].remaining = 0
  /\ \A j \in 1..(k - 1) : timers[j].remaining > 0

Without(k) ==
  [j \in 1..(Len(timers) - 1) |-> IF j < k THEN timers[j] ELSE timers[j + 1]]

\* responses.findIndex(r => r.questionId === id), from 1; 0 when there is none
FindIndex(rs, id) ==
  IF \E k \in 1..Len(rs) : rs[k].questionId = id
    THEN CHOOSE k \in 1..Len(rs) :
           /\ rs[k].questionId = id
           /\ \A j \in 1..(k - 1) : rs[j].questionId # id
    ELSE 0

\* responses.find(r => r.questionId === currentQuestion.id)?.selectedOption || null
PreviouslySelected(i, rs) ==
  IF FindIndex(rs, IdOfQuestion(i)) = 0 THEN "null"
  ELSE rs[FindIndex(rs, IdOfQuestion(i))].selectedOption

\* isReviewing, line 573
IsReviewing == currentQuestionIndex < highestAnsweredQuestion

\* the quiz interface is on screen (not the completion view of lines 754-770)
QuizShown == mounted /\ ~showCompletion

\* the option buttons and the skip button of QuestionCard are not disabled
CardEnabled == ~(selectedOption # "null" /\ ~IsReviewing)

\* lines 611-624 and 650-663: the response replaces the one of its question
\* in the list the handler closes over, or is added at its end
NewResponses(c, response) ==
  IF FindIndex(c.responses, response.questionId) > 0
    THEN [c.responses EXCEPT ![FindIndex(c.responses, response.questionId)] =
            response]
    ELSE Append(c.responses, response)

IsNewQuestion(c, response) ==
  /\ FindIndex(c.responses, response.questionId) = 0
  /\ c.currentQuestionIndex >= c.highestAnsweredQuestion

\* QuestionCard useEffect, part_006 lines 60-63: when question.id or
\* previouslySelected has changed, selectedOption becomes previouslySelected
SelectedAfter(newIndex, newResponses, newShowCompletion) ==
  IF newShowCompletion \/ ~InRange(newIndex) THEN "null"
  ELSE IF /\ newIndex = currentQuestionIndex
          /\ PreviouslySelected(newIndex, newResponses) =
               PreviouslySelected(currentQuestionIndex, flowResponses)
         THEN selectedOption
  ELSE PreviouslySelected(newIndex, newResponses)

\* handleAnswerSelect and handleQuestionSkip from their setResponses on, with
\* moveToNextQuestion, lines 626-629 and 680-702, run by a handler that closes
\* over c; rest are the timers that stay set
RecordAndMove(c, response, rest) ==
  LET newResponses == NewResponses(c, response)
      isLast == c.currentQuestionIndex >= NumQuestions - 1
  IN  /\ timers' = Append(rest, IF isLast THEN CompletionTimer(newResponses)
                                         ELSE TransitionTimer(1))
      /\ IF mounted
           THEN /\ flowResponses' = newResponses
                /\ isTransitioning' = TRUE
                /\ highestAnsweredQuestion' =
                     IF IsNewQuestion(c, response)
                       THEN c.currentQuestionIndex + 1
                       ELSE highestAnsweredQuestion
                /\ showCompletion' = (showCompletion \/ isLast)
                /\ selectedOption' =
                     SelectedAfter(currentQuestionIndex, newResponses,
                                   showCompletion \/ isLast)
           ELSE UNCHANGED <<flowResponses, isTransitioning,
                            highestAnsweredQuestion, showCompletion,
                            selectedOption>>
      /\ UNCHANGED <<currentQuestionIndex, mounted, completed>>

\* QuestionCard.handleOptionSelect, part_006 lines 72-79: a click on an option
handleOptionSelect(optionId) ==
  /\ NoneDue
  /\ QuizShown
  /\ CardEnabled
  /\ Len(timers) < MaxTimers
  /\ selectedOption' = optionId
  /\ timers' = Append(timers, AnswerTimer(optionId, Closure))
  /\ UNCHANGED <<currentQuestionIndex, flowResponses, highestAnsweredQuestion,
                 isTransitioning, showCompletion, mounted, completed>>
  /\ UNCHANGED <<callVars, instanceVars, pageVars>>

\* handleAnswerSelect, lines 597-631, called by the timer of handleOptionSelect
handleAnswerSelect(k) ==
  /\ timers[k].callback = "onAnswer"
  /\ Due(k)
  /\ IF timers[k].closure.isTransitioning
       THEN /\ timers' = Without(k)
            /\ UNCHANGED <<currentQuestionIndex, flowResponses,
                           highestAnsweredQuestion, isTransitioning,
                           showCompletion, selectedOption, mounted, completed>>
       ELSE RecordAndMove(
              timers[k].closure,
              QuestionResponse(
                IdOfQuestion(timers[k].closure.currentQuestionIndex),
                timers[k].optionId, TRUE, PointsOf(timers[k].optionId)),
              Without(k))
  /\ UNCHANGED <<callVars, instanceVars, pageVars>>

\* handleQuestionSkip, lines 639-669: a click on "Skip this question"
handleQuestionSkip ==
  /\ NoneDue
  /\ QuizShown
  /\ CardEnabled
  /\ ~isTransitioning
  /\ Len(timers) < MaxTimers
  /\ RecordAndMove(
       Closure,
       QuestionResponse(IdOfQuestion(currentQuestionIndex), "skip", TRUE, << >>),
       timers)
  /\ UNCHANGED <<callVars, instanceVars, pageVars>>

\* mutant: "Previous" is not held back on the first question
handleGoBackFromFirst ==
  /\ NoneDue
  /\ QuizShown
  /\ ~isTransitioning
  /\ Len(timers) < MaxTimers
  /\ isTransitioning' = TRUE
  /\ timers' = Append(timers, TransitionTimer(-1))
  /\ UNCHANGED <<currentQuestionIndex, flowResponses, highestAnsweredQuestion,
                 showCompletion, selectedOption, mounted, completed>>
  /\ UNCHANGED <<callVars, instanceVars, pageVars>>

\* handleGoBack, lines 710-720: a click on "Previous"
handleGoBack ==
  /\ NoneDue
  /\ QuizShown
  /\ ~(currentQuestionIndex = 0 \/ isTransitioning)
  /\ Len(timers) < MaxTimers
  /\ isTransitioning' = TRUE
  /\ timers' = Append(timers, TransitionTimer(-1))
  /\ UNCHANGED <<currentQuestionIndex, flowResponses, highestAnsweredQuestion,
                 showCompletion, selectedOption, mounted, completed>>
  /\ UNCHANGED <<callVars, instanceVars, pageVars>>

\* handleGoNext, lines 728-738: a click on "Next", shown while reviewing
handleGoNext ==
  /\ NoneDue
  /\ QuizShown
  /\ IsReviewing
  /\ ~(currentQuestionIndex >= NumQuestions - 1 \/ isTransitioning)
  /\ Len(timers) < MaxTimers
  /\ isTransitioning' = TRUE
  /\ timers' = Append(timers, TransitionTimer(1))
  /\ UNCHANGED <<currentQuestionIndex, flowResponses, highestAnsweredQuestion,
                 showCompletion, selectedOption, mounted, completed>>
  /\ UNCHANGED <<callVars, instanceVars, pageVars>>

\* the timer callbacks of lines 697-700, 716-719 and 734-737:
\* setCurrentQuestionIndex(prev => prev + step), setIsTransitioning(false)
TransitionCallback(k) ==
  /\ timers[k].callback = "transition"
  /\ Due(k)
  /\ timers' = Without(k)
  /\ IF mounted
       THEN /\ currentQuestionIndex' = currentQuestionIndex + timers[k].step
            /\ isTransitioning' = FALSE
            /\ mounted' = InRange(currentQuestionIndex + timers[k].step)
            /\ selectedOption' =
                 SelectedAfter(currentQuestionIndex + timers[k].step,
                               flowResponses, showCompletion)
       ELSE UNCHANGED <<currentQuestionIndex, isTransitioning, mounted,
                        selectedOption>>
  /\ UNCHANGED <<flowResponses, highestAnsweredQuestion, showCompletion,
                 completed>>
  /\ UNCHANGED <<callVars, instanceVars, pageVars>>

\* handleRestart, lines 746-752: a click on "Restart", shown while not
\* reviewing; a new run of the quiz starts
handleRestart ==
  /\ NoneDue
  /\ QuizShown
  /\ ~IsReviewing
  /\ currentQuestionIndex' = 0
  /\ flowResponses' = << >>
  /\ highestAnsweredQuestion' = 0
  /\ isTransitioning' = FALSE
  /\ showCompletion' = FALSE
  /\ selectedOption' = SelectedAfter(0, << >>, FALSE)
  /\ completed' = << >>
  /\ UNCHANGED <<mounted, timers>>
  /\ UNCHANGED <<callVars, instanceVars, pageVars>>

\* the timer callback of lines 692-694: onComplete(newResponses); the page's
\* handleQuizComplete then shows its own view in place of QuizFlow
onComplete(k) ==
  /\ timers[k].callback = "onComplete"
  /\ Due(k)
  /\ timers' = Without(k)
  /\ completed' = Append(completed, timers[k].newResponses)
  /\ mounted' = FALSE
  /\ UNCHANGED <<currentQuestionIndex, flowResponses, highestAnsweredQuestion,
                 isTransitioning, showCompletion, selectedOption>>
  /\ UNCHANGED <<callVars, instanceVars, pageVars>>

\* 100 ms pass: no timer is due
Tick ==
  /\ timers # << >>
  /\ NoneDue
  /\ timers' = [k \in 1..Len(timers) |->
                  [timers[k] EXCEPT !.remaining = timers[k].remaining - 1]]
  /\ UNCHANGED <<currentQuestionIndex, flowResponses, highestAnsweredQuestion,
                 isTransitioning, showCompletion, selectedOption, mounted,
                 completed>>
  /\ UNCHANGED <<callVars, instanceVars, pageVars>>

FlowNext ==
  \/ \E optionId \in OptionIds : handleOptionSelect(optionId)
  \/ \E k \in 1..Len(timers) : handleAnswerSelect(k)
  \/ handleQuestionSkip
  \/ handleGoBack
  \/ handleGoNext
  \/ \E k \in 1..Len(timers) : TransitionCallback(k)
  \/ handleRestart
  \/ \E k \in 1..Len(timers) : onComplete(k)
  \/ Tick

FlowSpec == Init /\ [][FlowNext]_vars

(***************************************************************************)
(* Vocabulary of the properties, stated on the arguments alone.            *)
(***************************************************************************)
Validated == pc \in {"aggregate", "damp", "scored", "done"}
               \/ (pc = "failed" /\ error = "noScores")

Scored == pc \in {"scored", "done"}

IsSkipped(r) == r.selectedOption \in {"skip", "unknown"}

\* other valid points mappings a skipped response could carry
OtherMappings ==
  { << >>, <<Pt("wolf", 10)>>, <<Pt("owl", 2), Pt("fox", 7)>> }

ReplacePoints(rs, i, m) == [rs EXCEPT ![i].points = m]

Malformed(rs) ==
  \/ Len(rs) = 0
  \/ \E i \in 1..Len(rs) :
       \/ rs[i].questionId = ""
       \/ rs[i].selectedOption = ""
       \/ rs[i].selectedOption \notin {"A", "B", "C", "D", "E", "F", "skip", "unknown"}
       \/ ~rs[i].hasPoints
       \/ \E k \in 1..Len(rs[i].points) : rs[i].points[k].points < 0

\* C1: replacing the points mapping of a skip/unknown response of a valid list
\* by any other valid mapping leaves the scores calculateResult returned, and
\* the outcome of calculateQuizResult, unchanged.
C1_SkippedPointsIgnored ==
  /\ Scored =>
       \A i \in 1..Len(responses) : \A m \in OtherMappings :
         IsSkipped(responses[i]) =>
           calculateResult(ReplacePoints(responses, i, m)) = scores
  /\ pc \in {"done", "failed"} /\ error # "validation" =>
       \A i \in 1..Len(responses) : \A m \in OtherMappings :
         IsSkipped(responses[i]) =>
           calculateQuizResult(ReplacePoints(responses, i, m), config)
             = [error |-> error, result |-> result]

C1_Witness ==
  /\ pc = "done"
  /\ \E i \in 1..Len(responses) :
       IsSkipped(responses[i]) /\ Len(responses[i].points) > 0
  /\ \E i \in 1..Len(responses) :
       ~IsSkipped(responses[i]) /\ Len(responses[i].points) > 0

\* C2: calculateResult fails with the validation error exactly when the list
\* is empty or some entry has an empty questionId, an empty or unknown
\* selectedOption, no points mapping or a negative point value (also on a
\* skipped response); every other list passes validation.
C2_ValidationExact ==
  /\ pc = "failed" /\ error = "validation" => Malformed(responses)
  /\ Validated => ~Malformed(responses)

C2_Witness ==
  /\ pc = "failed"
  /\ error = "validation"
  /\ \E i \in 1..Len(responses) :
       /\ IsSkipped(responses[i])
       /\ \E k \in 1..Len(responses[i].points) : responses[i].points[k].points < 0
  /\ \A i \in 1..Len(responses) :
       /\ responses[i].questionId # ""
       /\ responses[i].hasPoints
       /\ responses[i].selectedOption \in validOptions
       /\ ~IsSkipped(responses[i]) =>
            \A k \in 1..Len(responses[i].points) : responses[i].points[k].points >= 0

\* C3: validation is fail-fast: for a list with a malformed entry at any
\* index, no point is ever added to an archetype total, no score list is
\* built and no result is returned; the call ends with the validation error.
C3_FailFast ==
  Malformed(responses) /\ pc # "idle" =>
    /\ animalScores = << >>
    /\ scores = << >>
    /\ result = NoResult
    /\ pc \in {"validate", "validateEntry", "failed"}
    /\ pc = "failed" => error = "validation"

C3_Witness ==
  /\ pc = "failed"
  /\ error = "validation"
  /\ Len(responses) >= 3
  /\ idx = Len(responses)
  /\ \A i \in 1..(Len(responses) - 1) :
       EntryError(responses[i]) = "ok" /\ ~IsSkipped(responses[i])
         /\ Len(responses[i].points) > 0

\* C4: a list that passes validation fails with the no-scores error exactly
\* when every response is skip/unknown or has an empty points mapping; a list
\* whose answered responses award only zero-valued points returns one of the
\* archetypes they name as primary with totalPoints 0.
NothingAwarded(rs) ==
  \A i \in 1..Len(rs) : IsSkipped(rs[i]) \/ Len(rs[i].points) = 0

OnlyZeroAwarded(rs) ==
  /\ ~NothingAwarded(rs)
  /\ \A i \in 1..Len(rs) : ~IsSkipped(rs[i]) =>
       \A k \in 1..Len(rs[i].points) : rs[i].points[k].points = 0

C4_NoScoresExact ==
  /\ pc = "failed" /\ error = "noScores" => NothingAwarded(responses)
  /\ pc = "done" => ~NothingAwarded(responses)
  /\ pc = "scored" => (Len(scores) = 0 <=> NothingAwarded(responses))
  /\ pc = "done" /\ OnlyZeroAwarded(responses) =>
       /\ result.primary.totalPoints = 0
       /\ \E i \in 1..Len(responses) :
            /\ ~IsSkipped(responses[i])
            /\ \E k \in 1..Len(responses[i].points) :
                 responses[i].points[k].animal = result.primary.animalName

C4_Witness ==
  /\ pc = "done"
  /\ OnlyZeroAwarded(responses)
  /\ \E i \in 1..Len(responses) : IsSkipped(responses[i])

C4_WitnessNoScores ==
  /\ pc = "failed"
  /\ error = "noScores"
  /\ \E i \in 1..Len(responses) : ~IsSkipped(responses[i])

(***************************************************************************)
(* Totals and counts of a response list, summed directly from the list.    *)
(***************************************************************************)
RECURSIVE PointsFor(_, _, _)
PointsFor(entries, animal, k) ==
  IF k > Len(entries) THEN 0
  ELSE (IF entries[k].animal = animal THEN entries[k].points ELSE 0)
         + PointsFor(entries, animal, k + 1)

RECURSIVE RawTotal(_, _, _)
RawTotal(rs, animal, i) ==
  IF i > Len(rs) THEN 0
  ELSE (IF IsSkipped(rs[i]) THEN 0 ELSE PointsFor(rs[i].points, animal, 1))
         + RawTotal(rs, animal, i + 1)

RECURSIVE CountAnswered(_, _)
CountAnswered(rs, i) ==
  IF i > Len(rs) THEN 0
  ELSE (IF IsSkipped(rs[i]) THEN 0 ELSE 1) + CountAnswered(rs, i + 1)

AnsweredKeys(rs) ==
  UNION { {rs[i].points[k].animal : k \in 1..Len(rs[i].points)} :
            i \in {n \in 1..Len(rs) : ~IsSkipped(rs[n])} }

DampingTenths(rs) == Min(CountAnswered(rs, 1), 10)

\* round(raw * tenths / 10), halves upward, in exact arithmetic
RoundHalfUp(raw, tenths) == (2 * raw * tenths + 10) \div 20

\* C5 (as stated): every returned score has totalPoints =
\* round(rawTotal * min(answered/10, 1)) with halves rounded upward.
C5_ExactRounding ==
  Scored =>
    \A i \in 1..Len(scores) :
      scores[i].totalPoints =
        RoundHalfUp(RawTotal(responses, scores[i].animalName, 1),
                    DampingTenths(responses))

\* C6: all records returned by calculateResult carry the same confidence,
\* min(answered/10, 1), which lies in (0, 1]; the primary of the result
\* carries it too.
C6_UniformConfidence ==
  /\ Scored =>
       \A i \in 1..Len(scores) :
         /\ scores[i].confidence = DampingTenths(responses)
         /\ scores[i].confidence \in 1..10
  /\ pc = "done" => result.primary.confidence = DampingTenths(responses)

C6_Witness ==
  /\ pc = "done"
  /\ Len(scores) >= 2
  /\ CountAnswered(responses, 1) > 10
  /\ \E i \in 1..Len(responses) : IsSkipped(responses[i])

\* C7: calculateResult returns exactly one score for each archetype that is
\* a key of the points mapping of an answered response, and none for any
\* other archetype.
C7_OneScorePerAnsweredKey ==
  Scored =>
    /\ {scores[i].animalName : i \in 1..Len(scores)} = AnsweredKeys(responses)
    /\ Len(scores) = Cardinality(AnsweredKeys(responses))

C7_Witness ==
  /\ pc = "done"
  /\ Len(scores) >= 2
  /\ \E i \in 1..Len(scores) : scores[i].totalPoints = 0
  /\ \E i \in 1..Len(responses) :
       /\ IsSkipped(responses[i])
       /\ \E k \in 1..Len(responses[i].points) :
            responses[i].points[k].animal \notin AnsweredKeys(responses)

\* C8 (as stated): the primary of calculateQuizResult is an archetype whose
\* raw point total is the highest among all archetypes.
C8_PrimaryHasHighestRawTotal ==
  pc = "done" =>
    \A a \in AnsweredKeys(responses) :
      RawTotal(responses, result.primary.animalName, 1) >= RawTotal(responses, a, 1)

\* C9: calculateResult returns its scores in non-increasing order of
\* totalPoints, and the primary of calculateQuizResult has totalPoints >=
\* that of every aggregated archetype.
C9_SortedDescending ==
  /\ Scored =>
       \A i \in 1..Len(scores) : \A k \in i..Len(scores) :
         scores[i].totalPoints >= scores[k].totalPoints
  /\ pc = "done" =>
       \A a \in AnsweredKeys(responses) :
         \E i \in 1..Len(scores) :
           /\ scores[i].animalName = a
           /\ result.primary.totalPoints >= scores[i].totalPoints

C9_Witness ==
  /\ pc = "done"
  /\ Len(scores) >= 3
  /\ scores[1].totalPoints > scores[2].totalPoints
  /\ scores[2].totalPoints > scores[3].totalPoints
  /\ animalScores[1].animal # result.primary.animalName

\* C10: the secondary is present exactly when at least two archetypes were
\* aggregated and the rank-1 score reaches primary.totalPoints times the
\* configured threshold; it then is the rank-1 score, names another
\* archetype than the primary, and under the default configuration has
\* totalPoints >= 0.70 * primary.totalPoints.
C10_SecondaryThreshold ==
  pc = "done" =>
    /\ result.primary = scores[1]
    /\ result.hasSecondary <=>
         /\ Len(scores) >= 2
         /\ 10 * scores[2].totalPoints
              >= scores[1].totalPoints * config.secondaryAnimalThreshold
    /\ result.hasSecondary =>
         /\ result.secondary = scores[2]
         /\ result.secondary.animalName # result.primary.animalName
    /\ result.hasSecondary /\ config = DEFAULT_CONFIG =>
         10 * result.secondary.totalPoints >= 7 * result.primary.totalPoints

C10_Witness ==
  /\ pc = "done"
  /\ config = DEFAULT_CONFIG
  /\ result.hasSecondary
  /\ result.primary.totalPoints > result.secondary.totalPoints
  /\ result.secondary.totalPoints > 0

C10_WitnessAbsent ==
  /\ pc = "done"
  /\ Len(scores) >= 2
  /\ ~result.hasSecondary

(***************************************************************************)
(* The gap the label is computed from: the primary's total minus the       *)
(* rank-1 total, or the primary's total when one archetype was aggregated. *)
(***************************************************************************)
ScoreGap(ss) ==
  IF Len(ss) >= 2 THEN ss[1].totalPoints - ss[2].totalPoints ELSE ss[1].totalPoints

HighCase(ss, cfg) ==
  ss[1].confidence >= cfg.confidenceThresholds.high /\ ScoreGap(ss) >= 20

MediumCase(ss, cfg) ==
  ss[1].confidence >= cfg.confidenceThresholds.medium /\ ScoreGap(ss) >= 10

\* C11: calculateConfidence returns exactly one of high/medium/low: high iff
\* factor >= thresholds.high and gap >= 20; otherwise medium iff factor >=
\* thresholds.medium and gap >= 10; otherwise low; the gap is taken to the
\* rank-1 score, or is the primary's total when there is none; gap = 20 and
\* gap = 10 are inclusive.
C11_ConfidenceLabel ==
  pc = "done" =>
    /\ result.confidence \in {"high", "medium", "low"}
    /\ result.confidence = "high" <=> HighCase(scores, config)
    /\ result.confidence = "medium" <=>
         ~HighCase(scores, config) /\ MediumCase(scores, config)
    /\ result.confidence = "low" <=>
         ~HighCase(scores, config) /\ ~MediumCase(scores, config)

C11_Witness ==
  /\ pc = "done"
  /\ Len(scores) >= 2
  /\ ScoreGap(scores) = 20
  /\ result.confidence = "high"

C11_WitnessMedium ==
  /\ pc = "done"
  /\ ScoreGap(scores) = 10
  /\ result.confidence = "medium"

C11_WitnessSingle ==
  /\ pc = "done"
  /\ Len(scores) = 1
  /\ result.confidence = "high"

C12_WitnessHigh ==
  /\ pc = "done"
  /\ config = DEFAULT_CONFIG
  /\ CountAnswered(responses, 1) = 10
  /\ result.confidence = "high"

\* C13: every result has totalQuestionsAnswered = round(primary.confidence *
\* 15) and skippedQuestions = 15 - totalQuestionsAnswered: the two add up to
\* 15 and lie in 0..15, whatever the length of the response list.
C13_CountsFromConfidence ==
  pc = "done" =>
    /\ result.totalQuestionsAnswered = RoundHalfUp(15, result.primary.confidence)
    /\ result.skippedQuestions = 15 - result.totalQuestionsAnswered
    /\ result.totalQuestionsAnswered + result.skippedQuestions = 15
    /\ result.totalQuestionsAnswered \in 0..15
    /\ result.skippedQuestions \in 0..15

C13_Witness ==
  /\ pc = "done"
  /\ Len(responses) > 15
  /\ CountAnswered(responses, 1) \in 1..9
  /\ result.totalQuestionsAnswered # CountAnswered(responses, 1)

OneResponsePerQuestion(rs) ==
  /\ Len(rs) = 15
  /\ \A i \in 1..Len(rs) : \A k \in 1..Len(rs) :
       rs[i].questionId = rs[k].questionId => i = k

\* C14 (as stated): for a list holding one response for each of the 15 quiz
\* questions, totalQuestionsAnswered is the number of responses that are
\* neither skip nor unknown and skippedQuestions the number that are.
C14_CountsMatchResponses ==
  pc = "done" /\ OneResponsePerQuestion(responses) =>
    /\ result.totalQuestionsAnswered = CountAnswered(responses, 1)
    /\ result.skippedQuestions = Len(responses) - CountAnswered(responses, 1)

(***************************************************************************)
(* Other timestamps for the same responses: all zero, all equal, and in    *)
(* reverse order.                                                          *)
(***************************************************************************)
Restampings == {"zero", "equal", "reversed"}

Restamp(rs, how) ==
  [i \in 1..Len(rs) |->
     [rs[i] EXCEPT !.timestamp = IF how = "zero" THEN 0
                                 ELSE IF how = "equal" THEN 7
                                 ELSE Len(rs) + 1 - i]]

Finished == pc \in {"done", "failed"}

\* C15: the outcome of a call is a function of the configuration and of the
\* responses without their timestamps: the call ends as calculateQuizResult
\* evaluates on its arguments, and with the same result or the same error
\* for every other choice of the timestamp fields.
C15_TimestampsIgnored ==
  Finished =>
    /\ calculateQuizResult(responses, config) = [error |-> error, result |-> result]
    /\ \A how \in Restampings :
         calculateQuizResult(Restamp(responses, how), config)
           = [error |-> error, result |-> result]

C15_Witness ==
  /\ pc = "done"
  /\ Len(responses) >= 3
  /\ result.hasSecondary
  /\ \E i \in 1..Len(responses) : responses[i].timestamp # Len(responses) + 1 - i

C15_WitnessError ==
  /\ pc = "failed"
  /\ error = "noScores"
  /\ Len(responses) >= 2

(***************************************************************************)
(* Reorderings of a response list: the exchange of two neighbours (every   *)
(* permutation is a product of these), of the two ends, and the reversal.  *)
(***************************************************************************)
Swap(rs, i, k) == [rs EXCEPT ![i] = rs[k], ![k] = rs[i]]

Reverse(rs) == [i \in 1..Len(rs) |-> rs[Len(rs) + 1 - i]]

Reorderings(rs) ==
  {Swap(rs, i, i + 1) : i \in 1..(Len(rs) - 1)}
    \cup {Swap(rs, 1, Len(rs)), Reverse(rs)}

ScoreSet(ss) == {ss[i] : i \in 1..Len(ss)}

\* the rank-0 total is not shared with rank 1
PrimaryUntied(ss) == Len(ss) < 2 \/ ss[1].totalPoints > ss[2].totalPoints

\* the rank-1 total is shared neither with rank 0 nor with rank 2
SecondaryUntied(ss) ==
  /\ Len(ss) >= 2
  /\ ss[1].totalPoints > ss[2].totalPoints
  /\ Len(ss) < 3 \/ ss[2].totalPoints > ss[3].totalPoints

\* C16 (as stated): for every valid response list and every reordering of
\* it, calculateQuizResult returns the same result.
C16_OrderInsignificant ==
  pc = "done" =>
    \A rs \in Reorderings(responses) :
      calculateQuizResult(rs, config) = [error |-> error, result |-> result]

\* C16 (amended): for every valid response list and every reordering of it,
\* calculateQuizResult fails alike, or returns a result with the same
\* confidence label, the same counts, the same presence of a secondary and
\* the same totalPoints and confidence of primary and secondary, and
\* calculateResult returns the same set of scores; the primary (secondary)
\* archetype is the same whenever its totalPoints is not tied.
C16_OrderInsignificantUpToTies ==
  /\ pc = "failed" /\ error = "noScores" =>
       \A rs \in Reorderings(responses) :
         calculateQuizResult(rs, config) = [error |-> error, result |-> result]
  /\ pc = "done" =>
       \A rs \in Reorderings(responses) :
         LET other == calculateQuizResult(rs, config)
         IN  /\ other.error = "none"
             /\ ScoreSet(calculateResult(rs)) = ScoreSet(scores)
             /\ other.result.confidence = result.confidence
             /\ other.result.totalQuestionsAnswered = result.totalQuestionsAnswered
             /\ other.result.skippedQuestions = result.skippedQuestions
             /\ other.result.hasSecondary = result.hasSecondary
             /\ other.result.primary.totalPoints = result.primary.totalPoints
             /\ other.result.primary.confidence = result.primary.confidence
             /\ other.result.secondary.totalPoints = result.secondary.totalPoints
             /\ other.result.secondary.confidence = result.secondary.confidence
             /\ PrimaryUntied(scores) => other.result.primary = result.primary
             /\ SecondaryUntied(scores) => other.result.secondary = result.secondary

C16_Witness ==
  /\ pc = "done"
  /\ Len(scores) >= 2
  /\ ~PrimaryUntied(scores)
  /\ \E rs \in Reorderings(responses) :
       calculateQuizResult(rs, config).result.primary.animalName
         # result.primary.animalName

C16_WitnessUntied ==
  /\ pc = "done"
  /\ Len(scores) >= 3
  /\ PrimaryUntied(scores)
  /\ SecondaryUntied(scores)
  /\ result.hasSecondary
  /\ \E rs \in Reorderings(responses) : rs # responses

(***************************************************************************)
(* One more answered response that leaves every raw total as it is.        *)
(***************************************************************************)
OneMoreAnswered(rs) ==
  Append(rs, [QuestionResponse("q5", "F", TRUE, << >>) EXCEPT !.timestamp = Len(rs) + 1])

TotalOf(ss, animal) ==
  LET i == CHOOSE k \in 1..Len(ss) : ss[k].animalName = animal
  IN  ss[i].totalPoints

\* C17 (as stated): one more answered response, the raw totals unchanged,
\* never decreases the damping factor; while the factor is below 1.0 it
\* strictly increases the totalPoints of every archetype with a nonzero
\* total; from 10 answered responses on the factor stays 1.0.
C17_DampingStrictlyMonotone ==
  Scored =>
    LET more == calculateResult(OneMoreAnswered(responses))
    IN  \A i \in 1..Len(scores) :
          /\ more[i].confidence >= scores[i].confidence
          /\ scores[i].confidence < 10 /\ scores[i].totalPoints > 0 =>
               TotalOf(more, scores[i].animalName) > scores[i].totalPoints
          /\ scores[i].confidence = 10 => more[i].confidence = 10

\* C17 (amended): one more answered response, the raw totals unchanged,
\* never decreases the damping factor nor the totalPoints of any archetype;
\* while the factor is below 1.0 it strictly increases the factor, and the
\* totalPoints of every archetype whose raw total is at least 10; from 10
\* answered responses on the factor stays 1.0 and every totalPoints stays.
C17_DampingMonotone ==
  Scored =>
    LET more == calculateResult(OneMoreAnswered(responses))
    IN  /\ Len(more) = Len(scores)
        /\ \A i \in 1..Len(scores) :
             LET raw == RawTotal(responses, scores[i].animalName, 1)
                 after == TotalOf(more, scores[i].animalName)
             IN  /\ more[i].confidence >= scores[i].confidence
                 /\ after >= scores[i].totalPoints
                 /\ scores[i].confidence < 10 =>
                      /\ more[i].confidence > scores[i].confidence
                      /\ raw >= 10 => after > scores[i].totalPoints
                 /\ scores[i].confidence = 10 =>
                      /\ more[i].confidence = 10
                      /\ after = scores[i].totalPoints

C17_Witness ==
  /\ pc = "scored"
  /\ Len(scores) >= 2
  /\ scores[1].confidence = 9
  /\ RawTotal(responses, scores[1].animalName, 1) >= 10
  /\ \E i \in 1..Len(scores) :
       /\ scores[i].totalPoints > 0
       /\ TotalOf(calculateResult(OneMoreAnswered(responses)), scores[i].animalName)
            = scores[i].totalPoints

C17_WitnessSaturated ==
  /\ pc = "scored"
  /\ Len(scores) >= 1
  /\ CountAnswered(responses, 1) >= 10

\* C18: calculateResult and getResultWithSecondary leave their arguments
\* unchanged, whether the call returns or throws: from the call to its end
\* the response list (length, order, entries) and the calculator's
\* configuration stay as passed, and getResultWithSecondary leaves the score
\* list it is given as it was.
C18_ArgumentsUnchanged ==
  [][ /\ pc # "idle" /\ pc' # "idle" =>
           /\ responses' = responses
           /\ config' = config
      /\ pc = "scored" => scores' = scores ]_vars

C18_Witness ==
  /\ pc = "done"
  /\ Len(responses) >= 3
  /\ Len(scores) >= 2
  /\ config # DEFAULT_CONFIG
  /\ responses[1] # responses[Len(responses)]

C18_WitnessThrown ==
  /\ pc = "failed"
  /\ Len(responses) >= 3

\* C19: invocations are isolated.  Under every interleaving of constructor,
\* updateConfig and calculation calls on two instances and of
\* calculateQuizResult calls with the default configuration: the
\* DEFAULT_CONFIG object keeps its values; each instance's configuration is
\* the one it was built with, changed by its own updateConfig calls only
\* (given), whatever the other instance did; and every value returned is
\* the function of the responses and of that configuration (of
\* DEFAULT_CONFIG for calculateQuizResult).
C19_InvocationsIsolated ==
  /\ heap[DefaultConfigRef] = DEFAULT_CONFIG
  /\ \A i \in Instances :
       calculators[i] # NoCalculator => heap[calculators[i].config] = given[i]
  /\ returned.by = "calculateQuizResult" =>
       returned.value = calculateQuizResult(returned.responses, DEFAULT_CONFIG)
  /\ returned.by \in Instances =>
       returned.value = calculateQuizResult(returned.responses, returned.config)

\* both instances were built on the DEFAULT_CONFIG object, instance "first" has
\* updated its configuration, and a calculateQuizResult call made afterwards
\* returned a result that the updated configuration would not have given
C19_Witness ==
  /\ calculators["first"].config > CallerConfigRef
  /\ calculators["second"].config = DefaultConfigRef
  /\ heap[calculators["first"].config] # DEFAULT_CONFIG
  /\ returned.by = "calculateQuizResult"
  /\ returned.value.error = "none"
  /\ returned.value #
       calculateQuizResult(returned.responses, heap[calculators["first"].config])

\* the two instances share the caller's object, instance "second" has updated its
\* configuration, and instance "first" returned a result afterwards that instance
\* "second"'s configuration would not have given
C19_WitnessShared ==
  /\ calculators["first"].config = CallerConfigRef
  /\ calculators["second"].config > CallerConfigRef
  /\ heap[calculators["second"].config] # CallerConfig
  /\ returned.by = "first"
  /\ returned.value.error = "none"
  /\ returned.value #
       calculateQuizResult(returned.responses, heap[calculators["second"].config])

\* C20: when calculateQuizResult throws inside handleQuizComplete (validation
\* or no-scores error) no degraded result is produced: the handler writes
\* nothing to session storage (the items 'spiritAnimalResult' and
\* 'quizResponses' are as before the call), isCompleted stays false, no
\* result is set, no navigation to /result is scheduled, the page stays on
\* /quiz and it enters its error state.
Throws(rs) == calculateQuizResult(rs, DEFAULT_CONFIG).error # "none"

ThrowingInputs == {rs \in PageInputs : Throws(rs)}

C20_NoDegradedResult ==
  [][\A rs \in ThrowingInputs :
       handleQuizComplete(rs) =>
         /\ sessionStorage' = sessionStorage
         /\ ~isCompleted /\ ~isCompleted'
         /\ pageResult' = NoResult
         /\ ~navigationTimer /\ ~navigationTimer'
         /\ route' = "/quiz"
         /\ pageError' = CalculationFailedMessage]_vars

\* the handler has caught the error on a page with an empty session storage
C20_Witness ==
  /\ route = "/quiz"
  /\ pageError = CalculationFailedMessage
  /\ ~isCompleted
  /\ DOMAIN sessionStorage = {}

\* the handler has caught the error while the storage holds the items of an
\* earlier, completed quiz
C20_WitnessEarlierResult ==
  /\ route = "/quiz"
  /\ pageError = CalculationFailedMessage
  /\ ~isCompleted
  /\ DOMAIN sessionStorage = {"spiritAnimalResult", "quizResponses"}

(***************************************************************************)
(* Vocabulary of the properties of QuizFlow.                               *)
(***************************************************************************)
UniqueIds(rs) ==
  \A i, j \in 1..Len(rs) : rs[i].questionId = rs[j].questionId => i = j

\* the step is handleAnswerSelect past its guard, or handleQuestionSkip, for
\* the question at index i, while the component is mounted
Records(i) ==
  /\ mounted
  /\ \/ \E k \in 1..Len(timers) :
          /\ timers[k].callback = "onAnswer"
          /\ ~timers[k].closure.isTransitioning
          /\ timers[k].closure.currentQuestionIndex = i
          /\ handleAnswerSelect(k)
     \/ /\ currentQuestionIndex = i
        /\ handleQuestionSkip

\* rs2 is rs1 with the response of the question at index i replaced in place
ReplacedInPlace(rs1, rs2, i) ==
  /\ Len(rs2) = Len(rs1)
  /\ \A j \in 1..Len(rs1) :
       IF j = FindIndex(rs1, IdOfQuestion(i))
         THEN rs2[j].questionId = IdOfQuestion(i)
         ELSE rs2[j] = rs1[j]

\* C21: in QuizFlow, after any sequence of answer, skip, previous, next and
\* restart actions and of the timer callbacks they schedule, the responses
\* list holds at most one response per question id; answering or skipping a
\* question that already has a response replaces that response in place
\* without changing the list's length or the other entries.
C21_OneResponsePerQuestion ==
  [][/\ UniqueIds(flowResponses')
     /\ \A i \in 0..(NumQuestions - 1) :
          (Records(i) /\ FindIndex(flowResponses, IdOfQuestion(i)) > 0) =>
             ReplacedInPlace(flowResponses, flowResponses', i)]_vars

\* the part of C21 that holds: at most one response per question id, in the
\* list and in every list handed to onComplete
C21_UniqueIds ==
  /\ UniqueIds(flowResponses)
  /\ \A n \in 1..Len(completed) : UniqueIds(completed[n])

\* C22: whenever QuizFlow invokes onComplete, the list it passes holds a
\* response for every question of the quiz (its length equals
\* questions.length), under every interleaving of user clicks with the 200 ms
\* answer delay of QuestionCard and the 300 ms transition timers of QuizFlow,
\* including repeated clicks on a question being reviewed.
C22_CompleteListOnComplete ==
  \A n \in 1..Len(completed) :
    /\ Len(completed[n]) = NumQuestions
    /\ \A i \in 0..(NumQuestions - 1) :
         FindIndex(completed[n], IdOfQuestion(i)) > 0

\* C23: in one run of the quiz (between two restarts), QuizFlow invokes
\* onComplete at most once, under every interleaving of clicks and pending
\* timer callbacks.
C23_OnCompleteAtMostOnce == Len(completed) <= 1

(***************************************************************************)
(* Vocabulary of the later properties of the scoring engine.               *)
(***************************************************************************)
MaxEntries(rs) ==
  IF rs = << >> THEN 0
  ELSE CHOOSE n \in {Len(rs[i].points) : i \in 1..Len(rs)} :
         \A i \in 1..Len(rs) : Len(rs[i].points) <= n

\* the places <<i, k>> where an answered response rs[i] names the archetype,
\* as the k-th key of its points mapping
Contributions(rs, animal) ==
  {p \in (1..Len(rs)) \X (1..MaxEntries(rs)) :
     /\ ~IsSkipped(rs[p[1]])
     /\ p[2] <= Len(rs[p[1]].points)
     /\ rs[p[1]].points[p[2]].animal = animal}

Earlier(p, q) == p[1] < q[1] \/ (p[1] = q[1] /\ p[2] < q[2])

FirstContribution(rs, animal) ==
  CHOOSE p \in Contributions(rs, animal) :
    \A q \in Contributions(rs, animal) : q = p \/ Earlier(p, q)

\* C24: ties are resolved by stable sort: among archetypes with equal
\* totalPoints, calculateResult keeps them in the order in which each
\* archetype first received a contribution from an answered response, so the
\* primary among top-tied archetypes is the one whose first contribution
\* comes earliest in the response list.
C24_TiesInContributionOrder ==
  /\ Scored =>
       \A i \in 1..Len(scores) : \A k \in (i + 1)..Len(scores) :
         scores[i].totalPoints = scores[k].totalPoints =>
           Earlier(FirstContribution(responses, scores[i].animalName),
                   FirstContribution(responses, scores[k].animalName))
  /\ pc = "done" =>
       \A k \in 2..Len(scores) :
         scores[k].totalPoints = scores[1].totalPoints =>
           /\ result.primary.animalName = scores[1].animalName
           /\ Earlier(FirstContribution(responses, result.primary.animalName),
                      FirstContribution(responses, scores[k].animalName))

\* a tie at the top, behind an archetype that contributed first and scored less
C24_Witness ==
  /\ pc = "done"
  /\ Len(scores) >= 3
  /\ scores[1].totalPoints = scores[2].totalPoints
  /\ scores[1].totalPoints > 0
  /\ animalScores[1].animal \notin {scores[1].animalName, scores[2].animalName}

\* C25: whenever at least 10 responses are answered, the result reports
\* totalQuestionsAnswered = 15 and skippedQuestions = 0, whatever the number
\* of skip/unknown responses in the list (for example 10 answered and 5
\* skipped).
C25_TenAnsweredReportFifteen ==
  (pc = "done" /\ CountAnswered(responses, 1) >= FullConfidenceQuestions) =>
    /\ result.totalQuestionsAnswered = AssumedTotalQuestions
    /\ result.skippedQuestions = 0

\* 10 answered and 5 skipped
C25_Witness ==
  /\ pc = "done"
  /\ Len(responses) = 15
  /\ CountAnswered(responses, 1) = 10
  /\ Cardinality({i \in 1..Len(responses) : IsSkipped(responses[i])}) = 5
  /\ result.totalQuestionsAnswered = 15
  /\ result.skippedQuestions = 0

\* more than 15 responses, 11 or more of them answered, some skipped
C25_WitnessLonger ==
  /\ pc = "done"
  /\ Len(responses) > 15
  /\ CountAnswered(responses, 1) > 10
  /\ \E i \in 1..Len(responses) : IsSkipped(responses[i])
  /\ result.skippedQuestions = 0

\* the configuration object of instance i
ConfigOf(i) == heap[calculators[i].config]

\* C26: updateConfig(newConfig) replaces exactly the top-level configuration
\* fields present in newConfig and keeps the others; every later
\* getResultWithSecondary on that calculator uses the updated secondary
\* threshold and confidence thresholds, and results already returned are not
\* changed by the update.
C26_UpdateConfigFrame ==
  /\ [][\A i \in Instances, newConfig \in PartialConfigPool :
          updateConfig(i, newConfig) =>
            /\ DOMAIN ConfigOf(i)' = DOMAIN ConfigOf(i)
            /\ \A f \in DOMAIN ConfigOf(i) :
                 ConfigOf(i)'[f] = IF f \in DOMAIN newConfig THEN newConfig[f]
                                   ELSE ConfigOf(i)[f]
            /\ returned' = returned]_vars
  /\ [](returned.by \in Instances =>
         returned.value =
           calculateQuizResult(returned.responses, returned.config))

\* an instance built on DEFAULT_CONFIG has updated one field and then the
\* other, and its last result is one that neither the defaults nor the
\* configuration between the two updates give
C26_Witness ==
  /\ returned.by = "first"
  /\ returned.value.error = "none"
  /\ calculators["first"].config = MaxObjects
  /\ \A f \in DOMAIN DEFAULT_CONFIG : ConfigOf("first")[f] # DEFAULT_CONFIG[f]
  /\ returned.value # calculateQuizResult(returned.responses, DEFAULT_CONFIG)
  /\ returned.value #
       calculateQuizResult(returned.responses, heap[MaxObjects - 1])

\* the secondary thresholds a configuration can carry, in tenths
SecondaryThresholds == 0..10

WithSecondaryThreshold(cfg, t) == [cfg EXCEPT !.secondaryAnimalThreshold = t]

\* the label that a confidence factor and a gap give under cfg
LabelOf(factor, gap, cfg) ==
  IF factor >= cfg.confidenceThresholds.high /\ gap >= HighScoreDifference
    THEN "high"
  ELSE IF factor >= cfg.confidenceThresholds.medium
          /\ gap >= MediumScoreDifference
    THEN "medium"
  ELSE "low"

\* C27: the confidence label does not depend on the secondary threshold: it
\* is computed from the gap between the primary and the rank-1 score even
\* when that rank-1 score is not surfaced as the result's secondary, so a
\* result with no secondary but at least two aggregated archetypes uses the
\* gap to the runner-up and not the primary's own total.
C27_LabelIgnoresSecondaryThreshold ==
  pc = "done" =>
    /\ \A t \in SecondaryThresholds :
         getResultWithSecondary(scores, WithSecondaryThreshold(config, t)).confidence
           = result.confidence
    /\ Len(scores) >= 2 =>
         result.confidence =
           LabelOf(scores[1].confidence,
                   scores[1].totalPoints - scores[2].totalPoints, config)

\* no secondary is shown, and the primary's own total would have given
\* another label than the gap to the runner-up gives
C27_Witness ==
  /\ pc = "done"
  /\ Len(scores) >= 2
  /\ ~result.hasSecondary
  /\ scores[2].totalPoints > 0
  /\ result.confidence #
       LabelOf(scores[1].confidence, scores[1].totalPoints, config)

(***************************************************************************)
(* Later properties of QuizFlow.                                           *)
(***************************************************************************)
\* the step is handleAnswerSelect past its guard, or handleQuestionSkip, on a
\* question that is not the last one, while the component is mounted
RecordsAndAdvances ==
  /\ mounted
  /\ \/ \E k \in 1..Len(timers) :
          /\ timers[k].callback = "onAnswer"
          /\ ~timers[k].closure.isTransitioning
          /\ timers[k].closure.currentQuestionIndex < NumQuestions - 1
          /\ handleAnswerSelect(k)
     \/ /\ currentQuestionIndex < NumQuestions - 1
        /\ handleQuestionSkip

\* the callbacks that move currentQuestionIndex and are still to run
PendingMoves ==
  {k \in 1..Len(timers) : timers[k].callback = "transition"}

RECURSIVE SumOfSteps(_)
SumOfSteps(ks) ==
  IF ks = {} THEN 0
  ELSE LET k == CHOOSE j \in ks : TRUE
       IN  timers[k].step + SumOfSteps(ks \ {k})

\* C28: in QuizFlow, currentQuestionIndex always stays within
\* 0..questions.length-1 and never exceeds highestAnsweredQuestion, and each
\* recorded answer or skip advances it by exactly one, under every
\* interleaving of clicks (including two option clicks on a question being
\* reviewed) with the pending QuestionCard and QuizFlow timer callbacks.
C28_IndexInRange ==
  /\ InRange(currentQuestionIndex)
  /\ currentQuestionIndex <= highestAnsweredQuestion
  /\ currentQuestionIndex + SumOfSteps(PendingMoves) \in
       {currentQuestionIndex - 1, currentQuestionIndex, currentQuestionIndex + 1}

\* the state handleRestart leaves, before any click: a click on an option
\* sets selectedOption, a click on "Skip this question" records a response
Restarted ==
  /\ mounted
  /\ currentQuestionIndex = 0
  /\ flowResponses = << >>
  /\ highestAnsweredQuestion = 0
  /\ ~isTransitioning
  /\ ~showCompletion
  /\ selectedOption = "null"

\* C29: restart resets all state: after handleRestart, currentQuestionIndex
\* = 0, responses is empty, highestAnsweredQuestion = 0 and isTransitioning
\* and showCompletion are false, and the state stays so until the user's next
\* click; no answer or transition callback scheduled before the restart
\* changes it afterwards.
C29_RestartResets ==
  [][/\ handleRestart =>
          /\ currentQuestionIndex' = 0
          /\ flowResponses' = << >>
          /\ highestAnsweredQuestion' = 0
          /\ ~isTransitioning'
          /\ ~showCompletion'
     /\ (Restarted /\ ~NoneDue) =>
          UNCHANGED <<currentQuestionIndex, flowResponses,
                      highestAnsweredQuestion, isTransitioning,
                      showCompletion>>]_vars

\* the step sets one more timer, a move by step
SetsMove(step) ==
  /\ Len(timers') = Len(timers) + 1
  /\ SubSeq(timers', 1, Len(timers)) = timers
  /\ timers'[Len(timers')] = TransitionTimer(step)

\* C30: navigation does not touch the answers: handleGoBack and handleGoNext
\* (and their timer callbacks) leave responses and highestAnsweredQuestion
\* unchanged and move currentQuestionIndex by exactly one; they do nothing at
\* index 0 (back), at the last index (next) or while isTransitioning is true.
C30_NavigationFrame ==
  [][/\ handleGoBack =>
          /\ currentQuestionIndex > 0 /\ ~isTransitioning
          /\ SetsMove(-1)
          /\ UNCHANGED <<currentQuestionIndex, flowResponses,
                         highestAnsweredQuestion>>
     /\ handleGoNext =>
          /\ currentQuestionIndex < NumQuestions - 1 /\ ~isTransitioning
          /\ SetsMove(1)
          /\ UNCHANGED <<currentQuestionIndex, flowResponses,
                         highestAnsweredQuestion>>
     /\ \A k \in 1..Len(timers) :
          TransitionCallback(k) =>
            /\ UNCHANGED <<flowResponses, highestAnsweredQuestion>>
            /\ timers[k].step \in {-1, 1}
            /\ mounted => currentQuestionIndex' =
                             currentQuestionIndex + timers[k].step
            /\ timers' = Without(k)
     /\ (currentQuestionIndex = 0 \/ isTransitioning) =>
          ~(timers' # timers /\ NoneDue /\ SetsMove(-1))]_vars

\* Previous was clicked on the second question, with a response recorded,
\* and its callback has shown the first question again
C30_Witness ==
  /\ mounted
  /\ currentQuestionIndex = 0
  /\ highestAnsweredQuestion = 1
  /\ Len(flowResponses) = 1
  /\ ~isTransitioning
  /\ timers = << >>

\* Next was clicked on a question under review and is about to move on
C30_WitnessNext ==
  /\ mounted
  /\ isTransitioning
  /\ currentQuestionIndex = 0
  /\ highestAnsweredQuestion = 2
  /\ Len(timers) = 1
  /\ timers[1] = [TransitionTimer(1) EXCEPT !.remaining = 0]
  /\ selectedOption = PreviouslySelected(0, flowResponses)

=============================================================================
